---------------------------- MODULE Spec2Model ----------------------------
(***************************************************************************)
(* gravsim: the window / surface session of a single-window GPU program.   *)
(*                                                                         *)
(* The repository holds two programs that own a window and a surface:      *)
(*   - the library  (gravsim/window_surface.rs, gravsim/application.rs):   *)
(*     WindowSurface<App> driven by ApplicationWrapper, with an imgui      *)
(*     overlay and the Application callbacks;                              *)
(*   - the binary   (main.rs): its own WindowSurface driven by App.        *)
(* The variable prog says which of the two is running.  The operators      *)
(* named after the library's functions model the library, those prefixed   *)
(* main_ model main.rs.                                                    *)
(*                                                                         *)
(* A handler runs to completion on the single event-loop thread, so each   *)
(* handler is one action.  Handlers are written as operators from a world  *)
(* record W = [ws, window, event_loop, trace] to the world after the       *)
(* handler; trace is the list of calls the handler made to its             *)
(* collaborators (wgpu surface/queue, winit window, imgui, the             *)
(* application), emptied when the next handler starts.                     *)
(***************************************************************************)
EXTENDS Integers, Sequences, FiniteSets, TLC

VARIABLES
    prog,        \* "lib" (gravsim::application::run_app) or "main" (main.rs)
    monitor,     \* primary monitor: <<>> = none, <<modes>> = its video modes in enumeration order
    scale,       \* the window's scale factor (logical to physical pixels)
    now,         \* std::time::Instant::now()
    ws,          \* the Option<WindowSurface> slot and the fields of the WindowSurface
    window,      \* the winit window
    event_loop,  \* the event loop / process: exit requested, returned, panicked
    trace,       \* what the handler that ran last called
    ev,          \* the callback the event loop dispatched last
    hist         \* what the session was before the last F11 press it handled

vars == <<prog, monitor, scale, now, ws, window, event_loop, trace, ev, hist>>

-----------------------------------------------------------------------------
(* Bounds of the model *)

\* Instant::now() takes the values 0..MaxTime
MaxTime == 1
\* main.rs builds a session on every resumed(): at most MaxSessions of them
MaxSessions == 2
\* the application opens 0..MaxPasses render passes in one Application::render
MaxPasses == 2

(* Program constants *)

\* LogicalSize::new(1920.0, 1080.0) and resize(1920, 1080)
FallbackWidth == 1920
FallbackHeight == 1080
\* desired_maximum_frame_latency: 2
FrameLatency == 2

-----------------------------------------------------------------------------
(* The environment: displays, window system, GPU surface *)

Programs == {"lib", "main"}

\* Video modes a display may enumerate (size in physical pixels).
ModeA == [width |-> 2560, height |-> 1440]
ModeB == [width |-> 1920, height |-> 1080]

\* event_loop.primary_monitor(): None, or a monitor with its video_modes()
Monitors == { <<>>, << <<>> >>, << <<ModeA, ModeB>> >> }

ScaleFactors == {1, 2}

\* Sizes the window system reports in a Resized event (a minimized or
\* collapsed window reports a zero dimension).
ResizedSizes == { <<0, 0>>, <<0, 600>>, <<800, 0>>, <<800, 600>> }

\* The inner size the window system gives a window created without a
\* requested inner size.
PlatformDefaultSize == <<800, 600>>

\* surface_caps.formats as reported by the adapter, in enumeration order
FormatLists == { <<"Bgra8Unorm">>,
                 <<"Bgra8Unorm", "Bgra8UnormSrgb", "Rgba8UnormSrgb">> }

\* wgpu::TextureFormat::is_srgb
is_srgb(f) == f \in {"Bgra8UnormSrgb", "Rgba8UnormSrgb"}

\* Which step of the construction fails: create_window, create_surface,
\* request_adapter, request_device, or none of them
Failures == {"none", "window", "surface", "adapter", "device"}

\* Result of Surface::get_current_texture
AcquireResults == {"Ok", "Outdated", "Lost", "Timeout", "OutOfMemory", "Other"}

\* winit::dpi::LogicalSize::to_physical: logical * scale_factor
\* (the model's scale factors are integers, so no rounding happens)
to_physical(w, h, sf) == <<w * sf, h * sf>>

Min(a, b) == IF a <= b THEN a ELSE b

-----------------------------------------------------------------------------
(* The world before the process has created anything *)

NoConfig == [width |-> 0, height |-> 0, format |-> "none",
             present_mode |-> "none", latency |-> 0]

NoSession == [exists |-> FALSE, config |-> NoConfig, surface |-> {},
              app |-> "none", last_frame_time |-> 0]

NoWindow == [exists |-> FALSE, fullscreen |-> <<>>, minimized |-> FALSE,
             inner_size |-> <<0, 0>>, visible |-> FALSE]

\* exiting: event_loop.exit() has been called; returned: run_app has returned;
\* panicked: a panic has aborted the process; sessions: how many times
\* WindowSurface::new has returned a session
LoopStart == [exiting |-> FALSE, returned |-> FALSE, panicked |-> FALSE, sessions |-> 0]

\* calls: the calls made, in order; configured: the configurations handed to
\* surface.configure; acquired: the results of get_current_texture; encoder: the passes recorded in the frame's command
\* encoder; submitted: the command buffers handed to queue.submit; presented:
\* the colour attachment of each frame presented; imgui_events: the events
\* handed to the overlay's input adapter; delta: the delta times handed to it.
EmptyTrace == [calls |-> <<>>, configured |-> <<>>, acquired |-> <<>>, encoder |-> <<>>,
               submitted |-> <<>>, presented |-> <<>>, imgui_events |-> <<>>,
               delta |-> <<>>]

\* One call to a collaborator, appended to the trace of the running handler
call(W, name) == [W EXCEPT !.trace.calls = Append(@, name)]

\* A panic unwinds out of the handler and out of run_app: the process aborts
panic(W) == [W EXCEPT !.event_loop.panicked = TRUE]


-----------------------------------------------------------------------------
(* gravsim/window_surface.rs: WindowSurface<App> *)

\* self.surface.configure(&self.device, &self.config)
configure(W) ==
    [W EXCEPT !.ws.surface = {W.ws.config},
              !.trace.calls = Append(@, "configure"),
              !.trace.configured = Append(@, W.ws.config)]

\* resize without its zero-area guard
resize_unguarded(W, width, height) ==
    configure([W EXCEPT !.ws.config.width = width,
                        !.ws.config.height = height])

\* WindowSurface::resize
resize(W, width, height) ==
    IF width = 0 \/ height = 0
    THEN W
    ELSE configure([W EXCEPT !.ws.config.width = width,
                             !.ws.config.height = height])

\* The inner size create_window asks for: the first video mode of the primary
\* monitor, nothing when the monitor enumerates no mode, the logical fallback
\* size when there is no primary monitor.  <<>> stands for "none requested".
requested_inner_size ==
    IF monitor # <<>>
    THEN IF monitor[1] # <<>>
         THEN <<monitor[1][1].width, monitor[1][1].height>>
         ELSE <<>>
    ELSE to_physical(FallbackWidth, FallbackHeight, scale)

\* window_attributes.fullscreen: Exclusive(first mode) when the primary monitor
\* enumerates a mode, None otherwise
requested_fullscreen ==
    IF monitor # <<>> /\ monitor[1] # <<>> THEN <<monitor[1][1]>> ELSE <<>>

\* create_window asking for no fullscreen mode
create_window_windowed(W, failure, sized) ==
    IF failure = "window"
    THEN panic(call(W, "create_window"))
    ELSE [call(W, "create_window") EXCEPT
            !.window = [exists |-> TRUE,
                        fullscreen |-> <<>>,
                        minimized |-> FALSE,
                        inner_size |-> IF ~sized THEN <<0, 0>>
                                       ELSE IF requested_inner_size # <<>>
                                            THEN requested_inner_size
                                            ELSE PlatformDefaultSize,
                        visible |-> FALSE]]

\* WindowSurface::create_window.  failure = "window": event_loop.create_window
\* returned Err; sized: the window system has given the hidden window its size when
\* create_window returns (otherwise inner_size() still reads 0x0).
create_window(W, failure, sized) ==
    IF failure = "window"
    THEN panic(call(W, "create_window"))
    ELSE [call(W, "create_window") EXCEPT
            !.window = [exists |-> TRUE,
                        fullscreen |-> requested_fullscreen,
                        minimized |-> FALSE,
                        inner_size |-> IF ~sized THEN <<0, 0>>
                                       ELSE IF requested_inner_size # <<>>
                                            THEN requested_inner_size
                                            ELSE PlatformDefaultSize,
                        visible |-> FALSE]]

\* surface_caps.formats.iter().find(|f| f.is_srgb()): the first sRGB format in
\* enumeration order, <<>> when there is none
RECURSIVE find_srgb(_)
find_srgb(formats) ==
    IF formats = <<>> THEN <<>>
    ELSE IF is_srgb(Head(formats)) THEN <<Head(formats)>>
    ELSE find_srgb(Tail(formats))

\* WindowSurface::create_wgpu.  failure: which of create_surface,
\* request_adapter, request_device returns Err ("none": all succeed).
\* The result is Err (ok = FALSE) or the configuration built from the window's
\* inner size; the surface is not configured here.
create_wgpu(W, failure, formats) ==
    LET W1 == call(W, "create_surface")
        W2 == call(W1, "request_adapter")
        W3 == call(W2, "request_device")
        W4 == call(W3, "get_capabilities")
    IN  IF failure = "surface" THEN [ok |-> FALSE, W |-> W1]
        ELSE IF failure = "adapter" THEN [ok |-> FALSE, W |-> W2]
        ELSE IF failure = "device" THEN [ok |-> FALSE, W |-> W3]
        ELSE IF find_srgb(formats) = <<>> THEN [ok |-> FALSE, W |-> W4]
        ELSE [ok |-> TRUE,
              W |-> [W4 EXCEPT !.ws.config =
                        [width |-> W.window.inner_size[1],
                         height |-> W.window.inner_size[2],
                         format |-> find_srgb(formats)[1],
                         present_mode |-> "Immediate",
                         latency |-> FrameLatency]]]

\* set_cursor_grab unwrapped instead of dropped
set_cursor_grab_unwrapped(W, grab) ==
    IF grab THEN call(W, "set_cursor_grab:Ok") ELSE panic(call(W, "set_cursor_grab:Err"))

\* window.set_cursor_grab(CursorGrabMode::Confined).ok(): the result is dropped
set_cursor_grab(W, grab) ==
    call(W, IF grab THEN "set_cursor_grab:Ok" ELSE "set_cursor_grab:Err")

\* WindowSurface::new.  grab: set_cursor_grab returned Ok.
new(W, failure, sized, formats, grab) ==
    LET W1 == create_window(W, failure, sized)
        R  == create_wgpu(W1, failure, formats)
        W2 == set_cursor_grab(call(call(R.W, "set_visible"), "focus_window"), grab)
        W3 == [W2 EXCEPT !.window.visible = TRUE]
        W4 == call(call(W3, "imgui_context_create"), "imgui_renderer_new")
        \* tmp = Self { .., last_frame_time: Instant::now(), app: None }
        W5 == [W4 EXCEPT !.ws.last_frame_time = now, !.ws.app = "none"]
        \* tmp.app = Some(App::new(&mut tmp))
        W6 == [call(W5, "App::new") EXCEPT !.ws.app = "app"]
    IN  IF W1.event_loop.panicked THEN W1
        ELSE IF ~R.ok THEN panic(R.W)
        ELSE W6


\* The next statement of a handler: W is the world before it and V the world
\* after it; a panic before it has unwound the handler, and W stands.
step(W, V) == IF W.event_loop.panicked THEN W ELSE V

\* render_pass loading the colour attachment instead of clearing it
render_pass_loading(W, n, clear_color) ==
    [call(W, "app_pass") EXCEPT
        !.trace.encoder = Append(@, [kind |-> "app", load |-> "Load",
                                     color |-> clear_color, n |-> n])]

\* RenderContext::render_pass: the n-th pass the application opens in this
\* frame; it clears the colour attachment to desc.clear_color and runs the
\* application's draw closure
render_pass(W, n, clear_color) ==
    [call(W, "app_pass") EXCEPT
        !.trace.encoder = Append(@, [kind |-> "app", load |-> "Clear",
                                     color |-> clear_color, n |-> n])]

\* Application::render: the application opens one pass per element of passes
RECURSIVE app_render(_, _, _)
app_render(W, passes, n) ==
    IF passes = <<>> THEN W
    ELSE app_render(render_pass(W, n, Head(passes)), Tail(passes), n + 1)

\* the overlay pass clearing the attachment instead of loading it
imgui_pass_clearing(W, drawn) ==
    LET W1 == [call(W, "overlay_pass") EXCEPT
                  !.trace.encoder = Append(@, [kind |-> "overlay", load |-> "Clear",
                                               color |-> "black", n |-> 0])]
    IN  IF drawn THEN W1 ELSE panic(W1)

\* The "Imgui Render Pass" of WindowSurface::render: LoadOp::Load, then
\* imgui_renderer.render(..).expect(..)
imgui_pass(W, drawn) ==
    LET W1 == [call(W, "overlay_pass") EXCEPT
                  !.trace.encoder = Append(@, [kind |-> "overlay", load |-> "Load",
                                               color |-> "none", n |-> 0])]
    IN  IF drawn THEN W1 ELSE panic(W1)

\* What the GPU leaves in the colour attachment after running a command
\* buffer on it: a pass that clears replaces the content, a pass that loads
\* keeps it, and each pass then draws on top.
RECURSIVE execute(_, _)
execute(content, buffer) ==
    IF buffer = <<>> THEN content
    ELSE LET p == Head(buffer)
             base == IF p.load = "Clear"
                     THEN << [layer |-> "clear", color |-> p.color, n |-> p.n] >>
                     ELSE content
         IN  execute(Append(base, [layer |-> p.kind, color |-> "none", n |-> p.n]),
                     Tail(buffer))

\* self.surface.get_current_texture(), which returns result
get_current_texture(W, result) ==
    [call(W, "get_current_texture") EXCEPT !.trace.acquired = Append(@, result)]

\* acquire retrying after "outdated" without reconfiguring
acquire_outdated_unconfigured(W, first, retry) ==
    LET W1 == get_current_texture(W, first)
        again(V) == LET V1 == get_current_texture(V, retry)
                    IN  IF retry = "Ok" THEN V1 ELSE panic(V1)
    IN  CASE first = "Ok" -> W1
          [] first = "Outdated" -> again(W1)
          [] first = "Lost" -> again(configure(W1))
          [] OTHER -> panic(W1)

\* acquire recovering from "lost" through resize, as it does from "outdated"
acquire_lost_through_resize(W, first, retry) ==
    LET W1 == get_current_texture(W, first)
        again(V) == LET V1 == get_current_texture(V, retry)
                    IN  IF retry = "Ok" THEN V1 ELSE panic(V1)
    IN  CASE first = "Ok" -> W1
          [] first \in {"Outdated", "Lost"} ->
                 again(resize(W1, W1.ws.config.width, W1.ws.config.height))
          [] OTHER -> panic(W1)

\* acquire recovering from every error as it does from "lost"
acquire_retrying_all(W, first, retry) ==
    LET W1 == get_current_texture(W, first)
        again(V) == LET V1 == get_current_texture(V, retry)
                    IN  IF retry = "Ok" THEN V1 ELSE panic(V1)
    IN  CASE first = "Ok" -> W1
          [] first = "Outdated" -> again(resize(W1, W1.ws.config.width, W1.ws.config.height))
          [] OTHER -> again(configure(W1))

\* acquire recovering a second time when the retry reports "outdated" or "lost"
acquire_recovering_twice(W, first, retry) ==
    LET W1 == get_current_texture(W, first)
        again(V) == LET V1 == get_current_texture(V, retry)
                    IN  IF retry = "Ok" THEN V1
                        ELSE IF retry \in {"Outdated", "Lost"}
                        THEN get_current_texture(configure(V1), "Ok")
                        ELSE panic(V1)
    IN  CASE first = "Ok" -> W1
          [] first = "Outdated" -> again(resize(W1, W1.ws.config.width, W1.ws.config.height))
          [] first = "Lost" -> again(configure(W1))
          [] OTHER -> panic(W1)

\* The match on get_current_texture() in WindowSurface::render.
\* first, retry: the results of the first and of the second acquisition.
acquire(W, first, retry) ==
    LET W1 == get_current_texture(W, first)
        again(V) == LET V1 == get_current_texture(V, retry)
                    IN  IF retry = "Ok" THEN V1 ELSE panic(V1)
    IN  CASE first = "Ok" -> W1
          [] first = "Outdated" -> again(resize(W1, W1.ws.config.width, W1.ws.config.height))
          [] first = "Lost" -> again(configure(W1))
          [] OTHER -> panic(W1)

\* let mut app = self.app.take().expect("App must be present")
app_take(W) ==
    IF W.ws.app = "none" THEN panic(call(W, "app_take"))
    ELSE [call(W, "app_take") EXCEPT !.ws.app = "none"]

\* the application instance dropped instead of returned to the session
app_return_dropped(W) == call(W, "app_return")

\* self.app = Some(app)
app_return(W) == [call(W, "app_return") EXCEPT !.ws.app = "app"]

\* self.imgui_platform.prepare_frame(..).expect("Failed to prepare frame")
prepare_frame(W, prepared) ==
    IF prepared THEN call(W, "prepare_frame") ELSE panic(call(W, "prepare_frame"))

\* self.queue.submit(std::iter::once(encoder.finish()))
submit(W) == [call(W, "submit") EXCEPT !.trace.submitted = Append(@, W.trace.encoder)]

\* the acquired texture dropped without being presented
present_dropped(W) == W

\* output.present(): the acquired texture, as the submitted commands leave it
present(W) ==
    [call(W, "present") EXCEPT
        !.trace.presented = Append(@, execute(<<>>, W.trace.encoder))]

\* the delta handed on without the timestamp being moved
update_delta_time_stale(W) ==
    [call(W, "update_delta_time") EXCEPT
        !.trace.delta = Append(@, now - W.ws.last_frame_time)]

\* now - self.last_frame_time goes to imgui; self.last_frame_time = now
update_delta_time(W) ==
    [call(W, "update_delta_time") EXCEPT
        !.trace.delta = Append(@, now - W.ws.last_frame_time),
        !.ws.last_frame_time = now]

\* no further redraw asked for
request_redraw_dropped(W) == W

\* self.window.request_redraw()
request_redraw(W) == call(W, "request_redraw")

\* The statements of WindowSurface::render after the acquisition, each
\* skipped when a panic has already unwound the call:
\* output.texture.create_view and device.create_command_encoder
begin_encoder(W) == step(W, call(call(W, "create_view"), "create_command_encoder"))

\* self.app.take()
take_app(W) == step(W, app_take(W))

\* imgui_platform.prepare_frame
prepare_ui(W, prepared) == step(W, prepare_frame(W, prepared))

\* imgui_context.frame() and app.ui(frame)
begin_ui(W) == step(W, call(call(W, "imgui_frame"), "app_ui"))

\* app.render(&mut RenderContext { encoder, view })
record_app(W, passes) == step(W, app_render(call(W, "app_render"), passes, 1))

\* imgui_platform.prepare_render and the overlay pass
record_overlay(W, drawn) == step(W, imgui_pass(call(W, "prepare_render"), drawn))

\* self.app = Some(app)
return_app(W) == step(W, app_return(W))

\* self.queue.submit
submit_frame(W) == step(W, submit(W))

\* output.present()
present_frame(W) == step(W, present(W))

\* WindowSurface::render after its minimized check.  first, retry: results
\* of the acquisitions; prepared: prepare_frame returned Ok; passes: the clear
\* colours of the passes the application opens; drawn: imgui_renderer.render
\* returned Ok.
render_frame(W, first, retry, prepared, passes, drawn) ==
    present_frame(
      submit_frame(
        return_app(
          record_overlay(
            record_app(
              begin_ui(
                prepare_ui(
                  take_app(
                    begin_encoder(
                      acquire(request_redraw(update_delta_time(W)), first, retry))),
                  prepared)),
              passes),
            drawn))))

\* render without its minimized check
render_unskipped(W, first, retry, prepared, passes, drawn) ==
    render_frame(call(W, "is_minimized"), first, retry, prepared, passes, drawn)

\* WindowSurface::render
render(W, first, retry, prepared, passes, drawn) ==
    IF W.window.minimized
    THEN call(W, "is_minimized")
    ELSE render_frame(call(W, "is_minimized"), first, retry, prepared, passes, drawn)

-----------------------------------------------------------------------------
(* Window events *)

NoEvent == [kind |-> "none", width |-> 0, height |-> 0, focused |-> FALSE,
            key |-> "none", state |-> "none", repeat |-> FALSE]

Resumed == [NoEvent EXCEPT !.kind = "Resumed"]
CloseRequested == [NoEvent EXCEPT !.kind = "CloseRequested"]
RedrawRequested == [NoEvent EXCEPT !.kind = "RedrawRequested"]
Resized(w, h) == [NoEvent EXCEPT !.kind = "Resized", !.width = w, !.height = h]
Focused(f) == [NoEvent EXCEPT !.kind = "Focused", !.focused = f]
KeyboardInput(k, st, r) ==
    [NoEvent EXCEPT !.kind = "KeyboardInput", !.key = k, !.state = st, !.repeat = r]
\* any other WindowEvent (CursorMoved, MouseInput, ...)
OtherEvent == [NoEvent EXCEPT !.kind = "CursorMoved"]

Keys == {"F11", "Escape"}
KeyStates == {"Pressed", "Released"}

\* event.logical_key == F11 && event.state == Pressed
is_toggle(e) == e.kind = "KeyboardInput" /\ e.key = "F11" /\ e.state = "Pressed"

\* exit() that does not reach the event loop
exit_unsignalled(W) == call(W, "exit")

\* event_loop.exit()
exit(W) == [call(W, "exit") EXCEPT !.event_loop.exiting = TRUE]

\* set_minimized that can only minimize
set_minimized_only(W, minimized) ==
    [call(W, "set_minimized") EXCEPT !.window.minimized = TRUE]

\* self.window.set_minimized(minimized)
set_minimized(W, minimized) ==
    [call(W, "set_minimized") EXCEPT !.window.minimized = minimized]

\* self.window.set_fullscreen(fullscreen)
set_fullscreen(W, fullscreen) ==
    [call(W, "set_fullscreen") EXCEPT !.window.fullscreen = fullscreen]

\* self.window.request_inner_size(size), size in physical pixels; the
\* window takes the size asked for
request_inner_size(W, size) ==
    [call(W, "request_inner_size") EXCEPT !.window.inner_size = size]

\* the F11 arm leaving fullscreen without resizing the surface
toggle_fullscreen_unresized(W) ==
    IF W.window.fullscreen # <<>>
    THEN request_inner_size(set_fullscreen(W, <<>>),
                            to_physical(FallbackWidth, FallbackHeight, scale))
    ELSE IF monitor # <<>> /\ monitor[1] # <<>>
         THEN LET video_mode == monitor[1][1]
              IN  set_fullscreen(
                      resize(request_inner_size(W, <<video_mode.width, video_mode.height>>),
                             video_mode.width, video_mode.height),
                      <<video_mode>>)
         ELSE W

\* the F11 arm picking the last enumerated video mode
toggle_fullscreen_last_mode(W) ==
    IF W.window.fullscreen # <<>>
    THEN resize(request_inner_size(set_fullscreen(W, <<>>),
                                   to_physical(FallbackWidth, FallbackHeight, scale)),
                FallbackWidth, FallbackHeight)
    ELSE IF monitor # <<>> /\ monitor[1] # <<>>
         THEN LET video_mode == monitor[1][Len(monitor[1])]
              IN  set_fullscreen(
                      resize(request_inner_size(W, <<video_mode.width, video_mode.height>>),
                             video_mode.width, video_mode.height),
                      <<video_mode>>)
         ELSE W

\* the F11 arm asking for fullscreen before the surface is resized
toggle_fullscreen_before_resize(W) ==
    IF W.window.fullscreen # <<>>
    THEN resize(request_inner_size(set_fullscreen(W, <<>>),
                                   to_physical(FallbackWidth, FallbackHeight, scale)),
                FallbackWidth, FallbackHeight)
    ELSE IF monitor # <<>> /\ monitor[1] # <<>>
         THEN LET video_mode == monitor[1][1]
              IN  resize(request_inner_size(set_fullscreen(W, <<video_mode>>),
                                            <<video_mode.width, video_mode.height>>),
                         video_mode.width, video_mode.height)
         ELSE W

\* the F11 arm falling back to the fixed size when no video mode is found
toggle_fullscreen_fallback(W) ==
    IF W.window.fullscreen # <<>>
    THEN resize(request_inner_size(set_fullscreen(W, <<>>),
                                   to_physical(FallbackWidth, FallbackHeight, scale)),
                FallbackWidth, FallbackHeight)
    ELSE IF monitor # <<>> /\ monitor[1] # <<>>
         THEN LET video_mode == monitor[1][1]
              IN  set_fullscreen(
                      resize(request_inner_size(W, <<video_mode.width, video_mode.height>>),
                             video_mode.width, video_mode.height),
                      <<video_mode>>)
         ELSE resize(W, FallbackWidth, FallbackHeight)

\* The F11 arm of WindowSurface::handle_event
toggle_fullscreen(W) ==
    IF W.window.fullscreen # <<>>
    THEN resize(request_inner_size(set_fullscreen(W, <<>>),
                                   to_physical(FallbackWidth, FallbackHeight, scale)),
                FallbackWidth, FallbackHeight)
    ELSE IF monitor # <<>> /\ monitor[1] # <<>>
         THEN LET video_mode == monitor[1][1]
              IN  set_fullscreen(
                      resize(request_inner_size(W, <<video_mode.width, video_mode.height>>),
                             video_mode.width, video_mode.height),
                      <<video_mode>>)
         ELSE W

\* the event kept from the overlay's input adapter
imgui_handle_event_dropped(W, e) == W

\* self.imgui_platform.handle_event(io, window, &Event::WindowEvent { event })
imgui_handle_event(W, e) ==
    [call(W, "imgui_handle_event") EXCEPT !.trace.imgui_events = Append(@, e)]

\* WindowSurface::handle_event
handle_event(W, e, first, retry, prepared, passes, drawn) ==
    LET W1 == CASE e.kind = "CloseRequested" -> exit(W)
                [] e.kind = "Resized" -> resize(W, e.width, e.height)
                [] e.kind = "RedrawRequested" ->
                       render(W, first, retry, prepared, passes, drawn)
                [] e.kind = "Focused" ->
                       IF W.window.fullscreen # <<>>
                       THEN set_minimized(W, ~e.focused)
                       ELSE W
                [] e.kind = "KeyboardInput" ->
                       IF is_toggle(e) THEN toggle_fullscreen(W) ELSE W
                [] OTHER -> W
    IN  step(W1, imgui_handle_event(W1, e))

-----------------------------------------------------------------------------
(* gravsim/application.rs: ApplicationWrapper<App> *)

\* ApplicationWrapper::resumed
resumed(W, failure, sized, formats, grab) ==
    IF W.ws.exists
    THEN W
    ELSE LET W1 == new(W, failure, sized, formats, grab)
         IN  step(W1, [W1 EXCEPT !.ws.exists = TRUE,
                                 !.event_loop.sessions = @ + 1])

\* ApplicationWrapper::window_event
window_event(W, e, first, retry, prepared, passes, drawn) ==
    IF W.ws.exists
    THEN handle_event(W, e, first, retry, prepared, passes, drawn)
    ELSE W


-----------------------------------------------------------------------------
(* main.rs: WindowSurface and App *)

\* main.rs WindowSurface::new: every negotiation step is unwrapped, and the
\* format is the first sRGB one or else surface_caps.formats[0]
main_new(W, failure, formats) ==
    LET W1 == call(W, "create_surface")
        W2 == call(W1, "request_adapter")
        W3 == call(W2, "request_device")
        W4 == call(W3, "get_capabilities")
    IN  IF failure = "surface" THEN panic(W1)
        ELSE IF failure = "adapter" THEN panic(W2)
        ELSE IF failure = "device" THEN panic(W3)
        ELSE [W4 EXCEPT !.ws = [exists |-> TRUE,
                                config |-> [width |-> W.window.inner_size[1],
                                            height |-> W.window.inner_size[2],
                                            format |-> IF find_srgb(formats) # <<>>
                                                       THEN find_srgb(formats)[1]
                                                       ELSE formats[1],
                                            present_mode |-> "Immediate",
                                            latency |-> FrameLatency],
                                surface |-> {},
                                app |-> "none",
                                last_frame_time |-> now],
                        !.event_loop.sessions = @ + 1]

\* main.rs WindowSurface::resize
main_resize(W, width, height) ==
    IF width = W.ws.config.width /\ height = W.ws.config.height
    THEN W
    ELSE IF width = 0 \/ height = 0
    THEN W
    ELSE configure([W EXCEPT !.ws.config.width = width,
                             !.ws.config.height = height])

\* main.rs WindowSurface::render: get_current_texture().unwrap(), one pass
\* that clears to black and draws, submit, present
main_render(W, first) ==
    LET W1 == get_current_texture(request_redraw(W), first)
        W2 == call(call(W1, "create_view"), "create_command_encoder")
        W3 == render_pass(W2, 1, "black")
        W4 == present(submit(W3))
    IN  IF first # "Ok" THEN panic(W1)
        ELSE [W4 EXCEPT !.ws.last_frame_time = now]

\* main.rs App::resumed: the window attributes are those of create_window
main_resumed(W, failure, sized, formats, grab) ==
    LET W1 == create_window(W, failure, sized)
        W2 == step(W1, main_new(W1, failure, formats))
        W3 == step(W2, main_resize(W2, W2.window.inner_size[1], W2.window.inner_size[2]))
        W4 == step(W3, set_cursor_grab(call(call(W3, "set_visible"), "focus_window"), grab))
    IN  step(W4, [W4 EXCEPT !.window.visible = TRUE])

\* The F11 arm of main.rs App::window_event
main_toggle_fullscreen(W) ==
    IF W.window.fullscreen # <<>>
    THEN main_resize(request_inner_size(set_fullscreen(W, <<>>),
                                        to_physical(FallbackWidth, FallbackHeight, scale)),
                     FallbackWidth, FallbackHeight)
    ELSE IF monitor # <<>> /\ monitor[1] # <<>>
         THEN LET video_mode == monitor[1][1]
              IN  set_fullscreen(
                      main_resize(request_inner_size(W, <<video_mode.width, video_mode.height>>),
                                  video_mode.width, video_mode.height),
                      <<video_mode>>)
         ELSE W

\* main.rs App::window_event: self.window_surface.as_ref().unwrap() panics
\* when no session exists
main_window_event(W, e, first) ==
    CASE e.kind = "CloseRequested" -> exit(W)
      [] e.kind = "RedrawRequested" ->
             IF ~W.ws.exists THEN panic(W)
             ELSE IF W.window.minimized THEN call(W, "is_minimized")
             ELSE main_render(call(W, "is_minimized"), first)
      [] e.kind = "Resized" ->
             IF ~W.ws.exists THEN panic(W)
             ELSE main_resize(W, e.width, e.height)
      [] e.kind = "Focused" ->
             IF W.ws.exists /\ W.window.fullscreen # <<>>
             THEN set_minimized(W, ~e.focused)
             ELSE W
      [] e.kind = "KeyboardInput" ->
             IF ~is_toggle(e) THEN W
             ELSE IF ~W.ws.exists THEN panic(W)
             ELSE main_toggle_fullscreen(W)
      [] OTHER -> W


-----------------------------------------------------------------------------
(* The state machine *)

\* What an application may do in Application::render: open 0..n passes, the
\* odd ones clearing to blue and the even ones to black
PassLists(n) ==
    { [i \in 1..k |-> IF i % 2 = 1 THEN "blue" ELSE "black"] : k \in 0..n }

\* What the session was when a handler started
NoSnapshot == [fullscreen |-> <<>>, inner_size |-> <<0, 0>>, width |-> 0, height |-> 0]

snapshot == [fullscreen |-> window.fullscreen, inner_size |-> window.inner_size,
             width |-> ws.config.width, height |-> ws.config.height]

\* The history of F11 presses.  n: how many of the callbacks dispatched last,
\* up to two, were F11 presses handled by a session; last: the session before
\* the last of them; prev: the session before the one before it; fresh: the
\* callback before these presses was the resumed() that built the session.
\* lost: "pending" once a focus loss in ExclusiveFullscreen has minimized the
\* window, "due" when the callback dispatched last was the focus gain that
\* follows it, "no" otherwise.
NoHist == [n |-> 0, last |-> NoSnapshot, prev |-> NoSnapshot, fresh |-> FALSE,
           lost |-> "no"]

\* The focus history after the callback for e
focus_history(e) ==
    IF e.kind = "Resumed"
    THEN IF prog = "main" \/ ~ws.exists THEN "no" ELSE hist.lost
    ELSE IF e.kind = "Focused" /\ ~e.focused /\ ws.exists /\ window.fullscreen # <<>>
    THEN "pending"
    ELSE IF e.kind = "Focused" /\ e.focused
    THEN IF hist.lost = "pending" THEN "due" ELSE "no"
    ELSE IF hist.lost = "due" THEN "no" ELSE hist.lost

history(e) ==
    IF e.kind = "Resumed"
    THEN [NoHist EXCEPT !.fresh = (prog = "main" \/ ~ws.exists),
                        !.lost = focus_history(e)]
    ELSE IF is_toggle(e) /\ ws.exists
    THEN [n |-> Min(hist.n + 1, 2), last |-> snapshot,
          prev |-> IF hist.n = 0 THEN NoSnapshot ELSE hist.last,
          fresh |-> hist.fresh /\ hist.n < 2,
          lost |-> focus_history(e)]
    ELSE [NoHist EXCEPT !.lost = focus_history(e)]

World == [ws |-> ws, window |-> window, event_loop |-> event_loop, trace |-> EmptyTrace]

Running == ~event_loop.panicked /\ ~event_loop.returned

\* The handler has run: W is the world it leaves
Handled(W, e) ==
    /\ ws' = W.ws
    /\ window' = W.window
    /\ event_loop' = W.event_loop
    /\ trace' = W.trace
    /\ ev' = e
    /\ hist' = history(e)
    /\ UNCHANGED <<prog, monitor, scale, now>>

Init ==
    /\ prog \in Programs
    /\ monitor \in Monitors
    /\ scale \in ScaleFactors
    /\ now = 0
    /\ ws = NoSession
    /\ window = NoWindow
    /\ event_loop = LoopStart
    /\ trace = EmptyTrace
    /\ ev = NoEvent
    /\ hist = NoHist

\* ApplicationHandler::resumed
OnResumed ==
    /\ Running
    /\ ~event_loop.exiting
    /\ event_loop.sessions < MaxSessions
    /\ \E failure \in Failures :
       \E sized \in (IF failure = "none" THEN BOOLEAN ELSE {TRUE}) :
       \E formats \in (IF failure = "none" THEN FormatLists
                       ELSE { <<"Bgra8Unorm", "Bgra8UnormSrgb", "Rgba8UnormSrgb">> }) :
       \E grab \in (IF failure = "none" THEN BOOLEAN ELSE {TRUE}) :
          Handled(IF prog = "lib"
                  THEN resumed(World, failure, sized, formats, grab)
                  ELSE main_resumed(World, failure, sized, formats, grab),
                  Resumed)

\* ApplicationHandler::window_event for an event that is not a redraw request
Dispatch(e) ==
    /\ Running
    /\ ~event_loop.exiting
    /\ Handled(IF prog = "lib"
               THEN window_event(World, e, "Ok", "Ok", TRUE, <<>>, TRUE)
               ELSE main_window_event(World, e, "Ok"),
               e)

OnCloseRequested == Dispatch(CloseRequested)

\* The window system has given the window the size the event carries
Sized(W, size) == [W EXCEPT !.window.inner_size = size]

\* ApplicationHandler::window_event(Resized)
OnResized == \E size \in ResizedSizes :
    /\ window.exists
    /\ Running
    /\ ~event_loop.exiting
    /\ Handled(IF prog = "lib"
               THEN window_event(Sized(World, size), Resized(size[1], size[2]),
                                 "Ok", "Ok", TRUE, <<>>, TRUE)
               ELSE main_window_event(Sized(World, size), Resized(size[1], size[2]), "Ok"),
               Resized(size[1], size[2]))

OnFocused == \E f \in BOOLEAN : Dispatch(Focused(f))

OnKeyboardInput == \E k \in Keys, st \in KeyStates, r \in BOOLEAN :
    /\ (st = "Released" => ~r)
    /\ Dispatch(KeyboardInput(k, st, r))

OnOtherEvent == Dispatch(OtherEvent)

\* ApplicationHandler::window_event(RedrawRequested).  winit's exit() only
\* sets a flag that the loop reads once the events of the current iteration
\* are dispatched, and redraw requests are dispatched last in an iteration:
\* a redraw request can still arrive after exit() was called.
OnRedrawRequested ==
    /\ Running
    /\ \E first \in AcquireResults :
       \E retry \in (IF first \in {"Outdated", "Lost"} /\ prog = "lib"
                     THEN AcquireResults ELSE {"Ok"}) :
       \E prepared \in (IF prog = "lib" /\ "Ok" \in {first, retry} THEN BOOLEAN ELSE {TRUE}) :
       \E passes \in (IF prog = "lib" /\ "Ok" \in {first, retry} /\ prepared
                      THEN PassLists(MaxPasses) ELSE { <<>> }) :
       \E drawn \in (IF prog = "lib" /\ "Ok" \in {first, retry} /\ prepared
                     THEN BOOLEAN ELSE {TRUE}) :
          Handled(IF prog = "lib"
                  THEN window_event(World, RedrawRequested, first, retry, prepared, passes, drawn)
                  ELSE main_window_event(World, RedrawRequested, first),
                  RedrawRequested)

\* Between two callbacks: nothing of the last handler is in progress
Idle ==
    /\ trace' = EmptyTrace
    /\ ev' = NoEvent

\* Time passes
Tick ==
    /\ Running
    /\ now < MaxTime
    /\ now' = now + 1
    /\ Idle
    /\ UNCHANGED <<prog, monitor, scale, ws, window, event_loop, hist>>

\* The window system minimizes or restores the window
UserMinimize ==
    /\ Running
    /\ window.exists
    /\ window' = [window EXCEPT !.minimized = ~@]
    /\ hist' = [hist EXCEPT !.lost = "no"]
    /\ Idle
    /\ UNCHANGED <<prog, monitor, scale, now, ws, event_loop>>

\* run_app returns once exit() has been called and the current batch of
\* events has been dispatched
LoopExit ==
    /\ Running
    /\ event_loop.exiting
    /\ event_loop' = [event_loop EXCEPT !.returned = TRUE]
    /\ Idle
    /\ UNCHANGED <<prog, monitor, scale, now, ws, window, hist>>

Next ==
    \/ OnResumed
    \/ OnCloseRequested
    \/ OnResized
    \/ OnRedrawRequested
    \/ OnFocused
    \/ OnKeyboardInput
    \/ OnOtherEvent
    \/ Tick
    \/ UserMinimize
    \/ LoopExit

Spec == Init /\ [][Next]_vars


-----------------------------------------------------------------------------
(* Reading the trace of the handler that ran last *)

\* How many times the handler called name
Count(name) == Cardinality({ i \in 1..Len(trace.calls) : trace.calls[i] = name })

Called(name) == Count(name) > 0

\* The position of the first call of name (0: never called)
First(name) ==
    IF Called(name)
    THEN CHOOSE i \in 1..Len(trace.calls) :
            /\ trace.calls[i] = name
            /\ \A j \in 1..(i - 1) : trace.calls[j] # name
    ELSE 0

\* The position of the last call of name (0: never called)
Last(name) ==
    IF Called(name)
    THEN CHOOSE i \in 1..Len(trace.calls) :
            /\ trace.calls[i] = name
            /\ \A j \in (i + 1)..Len(trace.calls) : trace.calls[j] # name
    ELSE 0

\* A session handled the event dispatched last, and it was of this kind
SessionHandled(kind) == ws.exists /\ ev.kind = kind

ZeroArea(e) == e.width = 0 \/ e.height = 0

-----------------------------------------------------------------------------
(* Claims *)

\* C1: a resize(w, h) with w = 0 or h = 0, in any session state of either
\* program, leaves the stored SurfaceConfig (and the rest of the session)
\* unchanged and issues no surface.configure.
C1_ZeroResizeIsNoOp ==
    [][ (ws.exists /\ ev'.kind = "Resized" /\ ZeroArea(ev'))
        => /\ ws' = ws
           /\ trace'.configured = <<>>
           /\ \A i \in 1..Len(trace'.calls) : trace'.calls[i] # "configure" ]_vars

\* C1 witness: a session with a valid configuration has handled a zero-area resize
C1_Witness ==
    /\ SessionHandled("Resized")
    /\ ZeroArea(ev)
    /\ ws.config.width > 0 /\ ws.config.height > 0
    /\ ws.surface # {}


\* C2: after a resize(w, h) with w > 0 and h > 0, in any session state of
\* either program, the stored SurfaceConfig has width w and height h and the
\* surface is configured with that SurfaceConfig.
C2_ResizeReconfigures ==
    (SessionHandled("Resized") /\ ~ZeroArea(ev))
    => /\ ws.config.width = ev.width
       /\ ws.config.height = ev.height
       /\ ws.surface = {ws.config}

\* C2, the library alone: its resize also issues exactly one surface.configure,
\* with the updated SurfaceConfig
C2_Library ==
    (prog = "lib" /\ SessionHandled("Resized") /\ ~ZeroArea(ev))
    => /\ ws.config.width = ev.width
       /\ ws.config.height = ev.height
       /\ ws.surface = {ws.config}
       /\ trace.configured = <<ws.config>>

\* C3: a render-one-frame on a window that reports minimized, in either
\* program, acquires nothing, submits nothing, presents nothing and calls no
\* application callback.
C3_MinimizedFrameSkipped ==
    (SessionHandled("RedrawRequested") /\ window.minimized)
    => /\ trace.acquired = <<>>
       /\ trace.submitted = <<>>
       /\ trace.presented = <<>>
       /\ \A i \in 1..Len(trace.calls) :
             trace.calls[i] \in {"is_minimized", "imgui_handle_event"}

\* C3 witness: a redraw request has reached a session whose window is minimized
C3_Witness ==
    /\ SessionHandled("RedrawRequested")
    /\ window.minimized
    /\ Called("is_minimized")


\* The library's render-one-frame ran and its first acquisition returned result
FirstAcquired(result) ==
    /\ prog = "lib"
    /\ SessionHandled("RedrawRequested")
    /\ trace.acquired # <<>>
    /\ trace.acquired[1] = result

\* The reconfiguration of a recovery lies between the two acquisitions
ConfiguredBetweenAcquisitions ==
    /\ First("get_current_texture") < First("configure")
    /\ First("configure") < Last("get_current_texture")

\* The retried acquisition failed, which is fatal: the process aborts at once
RetryFatal ==
    /\ event_loop.panicked
    /\ trace.calls[Len(trace.calls)] = "get_current_texture"
    /\ Count("submit") = 0
    /\ Count("present") = 0

C5_LostRecovery ==
    FirstAcquired("Lost")
    => /\ trace.configured = <<ws.config>>
       /\ Count("configure") = 1
       /\ ConfiguredBetweenAcquisitions
       /\ Len(trace.acquired) = 2
       /\ Count("get_current_texture") = 2
       /\ trace.acquired[2] # "Ok" => RetryFatal

\* C5 witness: "lost", one reconfiguration, a retry that fails
C5_Witness ==
    /\ FirstAcquired("Lost")
    /\ Len(trace.acquired) = 2
    /\ trace.acquired[2] = "Lost"
    /\ trace.configured = <<ws.config>>
    /\ event_loop.panicked


\* The library's render-one-frame ran and acquired a texture
TextureAcquired ==
    /\ prog = "lib"
    /\ SessionHandled("RedrawRequested")
    /\ trace.acquired # <<>>
    /\ trace.acquired[Len(trace.acquired)] = "Ok"

\* The library's render-one-frame ran and presented a frame
FramePresented == TextureAcquired /\ trace.presented # <<>>

\* The command buffer is the application's passes followed by one overlay pass
AppPassesThenOverlay(buffer) ==
    /\ Len(buffer) = Count("app_pass") + 1
    /\ \A i \in 1..(Len(buffer) - 1) : buffer[i].kind = "app"
    /\ buffer[Len(buffer)].kind = "overlay"

\* C6: in every frame the library presents, the overlay frame is begun and
\* Application::ui called, then Application::render records the application
\* passes, then exactly one overlay pass is appended; every application pass
\* precedes the overlay pass; the overlay pass loads the colour attachment, so
\* the presented content below the overlay is what the application passes left.
C6_AppPassesBeforeOverlay ==
    FramePresented
    => /\ Count("imgui_frame") = 1 /\ Count("app_ui") = 1
       /\ Count("app_render") = 1 /\ Count("overlay_pass") = 1
       /\ First("imgui_frame") < First("app_ui")
       /\ First("app_ui") < First("app_render")
       /\ First("app_render") < First("overlay_pass")
       /\ \A i \in 1..Len(trace.calls) :
             trace.calls[i] = "app_pass"
             => First("app_render") < i /\ i < First("overlay_pass")
       /\ AppPassesThenOverlay(trace.encoder)
       /\ trace.encoder[Len(trace.encoder)].load = "Load"
       /\ LET shown == trace.presented[1]
              app_passes == SubSeq(trace.encoder, 1, Len(trace.encoder) - 1)
          IN  /\ shown[Len(shown)].layer = "overlay"
              /\ SubSeq(shown, 1, Len(shown) - 1) = execute(<<>>, app_passes)

\* C6 witness: a presented frame in which the application opened two passes
C6_Witness ==
    /\ FramePresented
    /\ Count("app_pass") = 2

ToggledTwiceFromWindowed ==
    /\ ws.exists
    /\ hist.n = 2
    /\ hist.prev.fullscreen = <<>>
    /\ hist.last.fullscreen # <<>>

\* C8 as stated: two consecutive F11 presses starting from Windowed leave the
\* window size and the SurfaceConfig size what they were before the first.
C8_ToggleTwiceRestoresSize ==
    ToggledTwiceFromWindowed
    => /\ window.inner_size = hist.prev.inner_size
       /\ ws.config.width = hist.prev.width
       /\ ws.config.height = hist.prev.height

\* C8 amended: two consecutive F11 presses starting from Windowed (to
\* ExclusiveFullscreen and back) leave the session Windowed with the fixed
\* fallback size, whatever the size was before: SurfaceConfig is 1920x1080 and
\* the size asked of the window is the logical 1920x1080 at the window's scale
\* factor.
C8_ToggleTwiceFallbackSize ==
    ToggledTwiceFromWindowed
    => /\ window.fullscreen = <<>>
       /\ ws.config.width = FallbackWidth
       /\ ws.config.height = FallbackHeight
       /\ window.inner_size = to_physical(FallbackWidth, FallbackHeight, scale)

\* C8 witness: the size before the two presses was not the fallback size
C8_Witness ==
    /\ ToggledTwiceFromWindowed
    /\ is_toggle(ev)
    /\ hist.prev.width = 800 /\ hist.prev.height = 600
    /\ hist.prev.inner_size = <<800, 600>>

\* A session of the library on a primary display with two video modes
TwoModeSession ==
    /\ prog = "lib"
    /\ ws.exists
    /\ monitor # <<>>
    /\ Len(monitor[1]) = 2

\* C9 as stated: on a display with two video modes, after exactly one F11
\* press the session is in ExclusiveFullscreen with the first enumerated mode.
C9_OneToggleEntersFirstMode ==
    (TwoModeSession /\ hist.fresh /\ hist.n = 1)
    => window.fullscreen = <<monitor[1][1]>>

\* C9 amended: on a display with two video modes the session is in
\* ExclusiveFullscreen with the first enumerated mode as soon as it is
\* constructed; the first F11 press takes it to Windowed and the second one
\* back to ExclusiveFullscreen; whenever it is in ExclusiveFullscreen the
\* active mode is the first enumerated mode, never the second.
C9_FirstModeAlways ==
    TwoModeSession
    => /\ window.fullscreen # <<>> => window.fullscreen = <<monitor[1][1]>>
       /\ (hist.fresh /\ hist.n = 0) => window.fullscreen = <<monitor[1][1]>>
       /\ (hist.fresh /\ hist.n = 1) => window.fullscreen = <<>>
       /\ (hist.fresh /\ hist.n = 2) => window.fullscreen = <<monitor[1][1]>>

\* C9 witness: two F11 presses after construction, back in the first mode
C9_Witness ==
    /\ TwoModeSession
    /\ hist.fresh /\ hist.n = 2
    /\ is_toggle(ev)
    /\ window.fullscreen = <<ModeA>>

C11_AppSlotExclusive ==
    (prog = "lib" /\ ws.exists)
    => /\ ~event_loop.panicked => ws.app = "app"
       /\ Count("app_take") <= 1 /\ Count("app_return") <= 1
       /\ Called("app_take")
            => /\ ev.kind = "RedrawRequested"
               /\ trace.calls[Len(trace.calls)] # "app_take"
       /\ \A i \in 1..Len(trace.calls) :
             trace.calls[i] \in {"app_ui", "app_render", "app_pass"}
             => /\ Called("app_take") /\ First("app_take") < i
                /\ Called("app_return") => i < First("app_return")
       /\ Called("app_return")
            => /\ Called("app_take")
               /\ First("app_take") < First("app_return")

\* C11 witness: a frame in which the instance was checked out, called and
\* checked back in
C11_Witness ==
    /\ prog = "lib" /\ SessionHandled("RedrawRequested")
    /\ Called("app_take") /\ Called("app_pass") /\ Called("app_return")
    /\ ws.app = "app"

\* A session has handled a focus event
FocusHandled(focused) ==
    /\ SessionHandled("Focused")
    /\ ev.focused = focused

\* C12 as stated: a focus loss in ExclusiveFullscreen minimizes the window; the
\* focus gain that follows restores the window so minimized, whatever was
\* handled in between; focus events in Windowed never change the minimized
\* state.
C12_FocusRestores ==
    /\ (FocusHandled(FALSE) /\ window.fullscreen # <<>>) => window.minimized
    /\ (FocusHandled(TRUE) /\ hist.lost = "due") => ~window.minimized
    /\ (SessionHandled("Focused") /\ window.fullscreen = <<>>)
       => ~Called("set_minimized")

\* C12 amended: a focus loss in ExclusiveFullscreen minimizes the window; a
\* focus gain handled in ExclusiveFullscreen un-minimizes it; focus events
\* handled in Windowed never change the minimized state, so a window minimized
\* by a focus loss stays minimized when the session has left
\* ExclusiveFullscreen before the focus gain.
C12_FocusRestoresInFullscreen ==
    /\ (FocusHandled(FALSE) /\ window.fullscreen # <<>>)
       => (window.minimized /\ Count("set_minimized") = 1)
    /\ (FocusHandled(TRUE) /\ window.fullscreen # <<>>)
       => (~window.minimized /\ Count("set_minimized") = 1)
    /\ (SessionHandled("Focused") /\ window.fullscreen = <<>>)
       => ~Called("set_minimized")

\* C12 witness: the focus gain that follows a focus loss in
\* ExclusiveFullscreen has restored the window
C12_Witness ==
    /\ FocusHandled(TRUE)
    /\ hist.lost = "due"
    /\ window.fullscreen # <<>>
    /\ ~window.minimized

C14_ConfigureNonZero ==
    /\ \A i \in 1..Len(trace.configured) : ~ZeroArea(trace.configured[i])
    /\ \A c \in ws.surface : ~ZeroArea(c)

\* C15: a session exists only with an sRGB surface format: when the surface
\* offers none, construction is fatal and yields no session.
C15_NoSessionWithoutSrgb ==
    ws.exists => is_srgb(ws.config.format)

\* C15, the library alone
C15_Library ==
    prog = "lib"
    => /\ ws.exists => is_srgb(ws.config.format)
       /\ (ev.kind = "Resumed" /\ event_loop.panicked) => ~ws.exists

\* The callback dispatched last was the resumed() that built the session
Constructed ==
    /\ ev.kind = "Resumed"
    /\ ws.exists
    /\ ~event_loop.panicked
    /\ hist.fresh

\* C16 as stated: right after construction the session is Windowed, and the
\* fullscreen state is changed only by the handling of an F11 press.
C16_StartsWindowed ==
    /\ Constructed => window.fullscreen = <<>>
    /\ Called("set_fullscreen") => is_toggle(ev)

\* C16 amended: right after construction the session is in ExclusiveFullscreen
\* with the first enumerated video mode when the primary display enumerates a
\* mode, and Windowed when there is no primary display or it enumerates none;
\* afterwards the fullscreen state is changed only by the handling of an F11
\* press.
C16_StartsAsDisplayAllows ==
    /\ Constructed
       => window.fullscreen = IF monitor # <<>> /\ monitor[1] # <<>>
                              THEN <<monitor[1][1]>>
                              ELSE <<>>
    /\ Called("set_fullscreen") => is_toggle(ev)

\* C16 witness: a session just constructed on a display with video modes
C16_Witness ==
    /\ Constructed
    /\ window.fullscreen = <<ModeA>>

\* C17: a first acquisition that fails with an error other than "outdated" or
\* "lost" aborts the process: no reconfiguration, no second acquisition, no
\* submit and no present.
C17_OtherErrorFatal ==
    (SessionHandled("RedrawRequested")
       /\ trace.acquired # <<>>
       /\ trace.acquired[1] \in {"Timeout", "OutOfMemory", "Other"})
    => /\ event_loop.panicked
       /\ trace.configured = <<>>
       /\ trace.acquired = << trace.acquired[1] >>
       /\ Count("get_current_texture") = 1
       /\ trace.calls[Len(trace.calls)] = "get_current_texture"
       /\ trace.submitted = <<>> /\ trace.presented = <<>>

\* C17 witness: the library's first acquisition timed out
C17_Witness ==
    /\ prog = "lib"
    /\ SessionHandled("RedrawRequested")
    /\ trace.acquired = <<"Timeout">>
    /\ event_loop.panicked

\* The library's resumed() ran WindowSurface::new
LibraryConstruction ==
    /\ prog = "lib"
    /\ ev.kind = "Resumed"
    /\ Called("create_window")

\* C18 as stated: the window stays hidden while the GPU context is
\* negotiated, the overlay renderer initialized and Application::new run; it
\* is revealed, focus requested and cursor confinement attempted only after;
\* a confinement failure does not fail construction.
C18_RevealedLast ==
    (LibraryConstruction /\ Called("set_visible"))
    => /\ Called("App::new")
       /\ Last("request_device") < First("imgui_renderer_new")
       /\ Last("imgui_renderer_new") < First("App::new")
       /\ Last("App::new") < First("set_visible")
       /\ First("set_visible") < First("focus_window")
       /\ Called("set_cursor_grab:Err") => (ws.exists /\ ~event_loop.panicked)

\* C18 amended: the window is created hidden and stays hidden while the GPU
\* context is negotiated; it is then revealed, focus requested and cursor
\* confinement attempted, and only after that the overlay renderer is
\* initialized and Application::new run; a confinement failure does not fail
\* construction; a construction that fails never reveals the window.
C18_RevealedAfterNegotiation ==
    LibraryConstruction
    => /\ ws.exists
            => /\ \E grab \in {"set_cursor_grab:Ok", "set_cursor_grab:Err"} :
                     trace.calls = <<"create_window", "create_surface", "request_adapter",
                                     "request_device", "get_capabilities", "set_visible",
                                     "focus_window", grab, "imgui_context_create",
                                     "imgui_renderer_new", "App::new">>
               /\ window.visible
       /\ Called("set_cursor_grab:Err") => (ws.exists /\ ~event_loop.panicked)
       /\ event_loop.panicked
            => /\ ~ws.exists
               /\ ~Called("set_visible")
               /\ ~window.visible

\* C18 witness: a session constructed although cursor confinement failed
C18_Witness ==
    /\ LibraryConstruction
    /\ ws.exists
    /\ Called("set_cursor_grab:Err")
    /\ window.visible

\* C19: construction configures the surface with the initial SurfaceConfig,
\* so no texture is acquired from a surface that was never configured.
C19_ConfiguredAtConstruction ==
    /\ Constructed => ws.surface = {ws.config}
    /\ (SessionHandled("RedrawRequested")
          /\ trace.acquired # <<>> /\ trace.configured = <<>>)
       => ws.surface # {}

\* C20: only the press edge of F11 changes the fullscreen state: neither a
\* key release nor a repeated key event of a held key does.
C20_PressEdgeOnly ==
    (SessionHandled("KeyboardInput") /\ (ev.state = "Released" \/ ev.repeat))
    => ~Called("set_fullscreen")

\* C20, releases alone
C20_ReleaseIgnored ==
    (SessionHandled("KeyboardInput") /\ ev.state = "Released")
    => ~Called("set_fullscreen")


\* A session has handled an F11 press
ToggleHandled ==
    /\ SessionHandled("KeyboardInput")
    /\ is_toggle(ev)
    /\ hist.n >= 1

\* The primary display enumerates at least one video mode
HasVideoMode == monitor # <<>> /\ monitor[1] # <<>>

\* C21: an F11 press handled by the library in Windowed, on a display with a
\* video mode: the size of the first enumerated mode is requested as inner
\* size, then the surface is reconfigured to that size, then exclusive
\* fullscreen is requested with that mode; afterwards the session is in
\* ExclusiveFullscreen with that mode and SurfaceConfig has the mode's size.
C21_EnterFullscreenOrder ==
    (prog = "lib" /\ ToggleHandled /\ hist.last.fullscreen = <<>> /\ HasVideoMode)
    => /\ trace.calls = <<"request_inner_size", "configure", "set_fullscreen",
                          "imgui_handle_event">>
       /\ window.fullscreen = <<monitor[1][1]>>
       /\ window.inner_size = <<monitor[1][1].width, monitor[1][1].height>>
       /\ ws.config.width = monitor[1][1].width
       /\ ws.config.height = monitor[1][1].height
       /\ trace.configured = <<ws.config>>
       /\ ws.surface = {ws.config}

\* C21 witness: the library has gone from Windowed to the first mode
C21_Witness ==
    /\ prog = "lib" /\ ToggleHandled
    /\ hist.last.fullscreen = <<>>
    /\ window.fullscreen = <<ModeA>>
    /\ ws.config.width = 2560 /\ ws.config.height = 1440

\* C22: an F11 press handled in ExclusiveFullscreen clears fullscreen,
\* requests the fallback inner size and reconfigures the surface; afterwards
\* the session is Windowed and SurfaceConfig has the size requested for the
\* window.
C22_LeaveFullscreenSameSize ==
    (ToggleHandled /\ hist.last.fullscreen # <<>>)
    => /\ window.fullscreen = <<>>
       /\ First("set_fullscreen") < First("request_inner_size")
       /\ ws.config.width = window.inner_size[1]
       /\ ws.config.height = window.inner_size[2]

\* C22 without the comparison of the two sizes: fullscreen is cleared, the
\* logical fallback size requested and SurfaceConfig set to 1920x1080 pixels
C22_LeaveFullscreen ==
    (ToggleHandled /\ hist.last.fullscreen # <<>>)
    => /\ window.fullscreen = <<>>
       /\ First("set_fullscreen") < First("request_inner_size")
       /\ window.inner_size = to_physical(FallbackWidth, FallbackHeight, scale)
       /\ ws.config.width = FallbackWidth
       /\ ws.config.height = FallbackHeight
       /\ ws.surface = {ws.config}

\* C23: an F11 press handled by the library in Windowed when there is no
\* primary display, or it enumerates no video mode, changes nothing: same
\* fullscreen state, window size and SurfaceConfig size, no reconfiguration,
\* no abort, and the event still goes to the overlay's input adapter.
C23_ToggleIgnoredWithoutMode ==
    (prog = "lib" /\ ToggleHandled /\ hist.last.fullscreen = <<>> /\ ~HasVideoMode)
    => /\ snapshot = hist.last
       /\ trace.configured = <<>>
       /\ trace.calls = <<"imgui_handle_event">>
       /\ trace.imgui_events = <<ev>>
       /\ ~event_loop.panicked

\* C23 witness: an ignored F11 press on a configured 800x600 session without
\* a primary display
C23_Witness ==
    /\ prog = "lib" /\ ToggleHandled
    /\ monitor = <<>>
    /\ window.fullscreen = <<>>
    /\ ws.config.width = 800 /\ ws.surface = {ws.config}
    /\ trace.imgui_events = <<ev>>


\* C24: one render-one-frame of the library issues at most two acquisitions
\* and at most one recovery reconfiguration, whatever the surface answers; a
\* second acquisition follows only "outdated" or "lost", and its failure is
\* fatal whatever its kind.
C24_RecoveryBounded ==
    (prog = "lib" /\ SessionHandled("RedrawRequested"))
    => /\ Count("get_current_texture") <= 2
       /\ Len(trace.acquired) = Count("get_current_texture")
       /\ Len(trace.configured) <= 1
       /\ Count("configure") = Len(trace.configured)
       /\ Len(trace.acquired) = 2
            => /\ trace.acquired[1] \in {"Outdated", "Lost"}
               /\ trace.acquired[2] # "Ok" => RetryFatal

\* C24 witness: "outdated", then "lost" on the retry, then the abort
C24_Witness ==
    /\ prog = "lib" /\ SessionHandled("RedrawRequested")
    /\ trace.acquired = <<"Outdated", "Lost">>
    /\ Len(trace.configured) = 1
    /\ event_loop.panicked

\* C25: a render-one-frame of the library that is not skipped moves the
\* last-frame timestamp to the current time exactly once, before the texture
\* is acquired, and hands the overlay the time since the previous timestamp;
\* a skipped call, every other event and every step of the environment leave
\* the timestamp where it was and hand the overlay no delta.
C25_TimestampPerFrame ==
    [][ (prog = "lib" /\ ws.exists)
        => IF ev'.kind = "RedrawRequested" /\ ~window.minimized
           THEN /\ ws'.last_frame_time = now
                /\ trace'.delta = << now - ws.last_frame_time >>
                /\ Count("update_delta_time")' = 1
                /\ First("update_delta_time")' < First("get_current_texture")'
           ELSE /\ ws'.last_frame_time = ws.last_frame_time
                /\ trace'.delta = <<>>
                /\ ~Called("update_delta_time")' ]_vars

\* C25 witness: a frame rendered one time unit after the previous timestamp
C25_Witness ==
    /\ prog = "lib" /\ SessionHandled("RedrawRequested")
    /\ trace.delta = <<1>>
    /\ ws.last_frame_time = 1
    /\ now = 1

\* C26: at most one session is constructed in a process, and a window event
\* dispatched while no session exists has no effect.
C26_SingleSession ==
    /\ event_loop.sessions <= 1
    /\ (~ws.exists /\ ev.kind \notin {"none", "Resumed"})
       => (trace.calls = <<>> /\ ~event_loop.panicked /\ ~event_loop.exiting)

\* C26, the library alone: one session at most, a later resumed() does
\* nothing, and events without a session are dropped
C26_Library ==
    prog = "lib"
    => /\ event_loop.sessions <= 1
       /\ (ev.kind = "Resumed" /\ ~hist.fresh) => trace.calls = <<>>
       /\ (~ws.exists /\ ev.kind \notin {"none", "Resumed"})
          => (trace.calls = <<>> /\ ~event_loop.panicked /\ ~event_loop.exiting)

\* C27: a render-one-frame that is not skipped asks for exactly one further
\* redraw, before it acquires a texture; one that is skipped because the
\* window is minimized asks for none.
C27_RedrawRequestedPerFrame ==
    SessionHandled("RedrawRequested")
    => /\ ~window.minimized
            => /\ Count("request_redraw") = 1
               /\ Called("get_current_texture")
               /\ First("request_redraw") < First("get_current_texture")
       /\ window.minimized
            => /\ Count("request_redraw") = 0
               /\ ~Called("get_current_texture")

\* C27 witness: a frame of the binary that asked for the next redraw and was
\* presented
C27_Witness ==
    /\ prog = "main" /\ SessionHandled("RedrawRequested")
    /\ Count("request_redraw") = 1
    /\ Count("present") = 1

\* C28: every pass the application opens clears the colour attachment to its
\* clear colour, so under the overlay a presented frame holds the clear and
\* the drawing of the last application pass only.
C28_LastPassOnly ==
    FramePresented
    => LET k == Count("app_pass")
       IN  /\ \A i \in 1..k : /\ trace.encoder[i].kind = "app"
                              /\ trace.encoder[i].load = "Clear"
           /\ k >= 1
                => trace.presented[1] =
                      << [layer |-> "clear", color |-> trace.encoder[k].color, n |-> k],
                         [layer |-> "app", color |-> "none", n |-> k],
                         [layer |-> "overlay", color |-> "none", n |-> 0] >>

\* C28 witness: two passes, blue then black; the frame shows the black one
C28_Witness ==
    /\ FramePresented
    /\ Count("app_pass") = 2
    /\ trace.encoder[1].color = "blue"
    /\ trace.presented[1][1] = [layer |-> "clear", color |-> "black", n |-> 2]

=============================================================================
